---------------------------- MODULE Spec2Model ----------------------------
(***************************************************************************)
(* Model of labs/04_conv_nets/Fine_Tuning_Deep_CNNs_with_GPU.ipynb.        *)
(*                                                                         *)
(* Three parts of the notebook are modelled, each with its own             *)
(* specification over the same variables:                                  *)
(*   - the dataset organizer (extract train.zip, rearrange_folders, the    *)
(*     validation split) over a filesystem of paths     : Spec, SpecInt    *)
(*   - the validation accuracy loop                      : SpecEval        *)
(*   - the training of top_model, the composed model, the trainability     *)
(*     toggle, compile and fit_generator                 : SpecFT          *)
(*                                                                         *)
(* The organizer cells run in notebook order; an exception raised by a    *)
(* cell ends the run (pc = "error"), as "Run All" stops at the first cell  *)
(* that fails.  A run is one step per filesystem call, so that SpecInt can *)
(* interrupt it between any two of them.                                   *)
(*                                                                         *)
(* A path is a sequence of tokens.  "/" and "." and every digit are tokens *)
(* of their own; a run of letters is one token.  str.split, op.join and    *)
(* sorted() are computed on these sequences as Python computes them on     *)
(* strings.                                                                *)
(***************************************************************************)
EXTENDS Integers, Sequences, FiniteSets, TLC

(***************************************************************************)
(* Bounds of the model.                                                    *)
(* n_validation is 500 in the notebook (the dogs-vs-cats archive holds     *)
(* 12500 images per class); the model scales it down together with the     *)
(* archive, keeping classes with fewer, exactly as many and more images    *)
(* than n_validation.                                                      *)
(***************************************************************************)
n_validation == 2

\* organizer runs (executions of the three cells from the top) per behaviour
MaxRuns == 2

\* images of one class in train.zip: 0..MaxImages of them
MaxImages == 4

\* images in the validation folder seen by the accuracy loop: 0..MaxVal
MaxVal == 4

\* batch sizes tried by the accuracy loop: 1..MaxBatch
MaxBatch == 3

VARIABLES
    home,              \* the user's home directory, what '~' expands to
    dirs,              \* the directories of the filesystem (set of paths)
    files,             \* the regular files of the filesystem (set of paths)
    archive,           \* the image names in train.zip, in archive order
    pc,                \* position of the organizer run
    members,           \* extractall: the archive members still to extract
    image_filenames,   \* rearrange_folders: the images still to move
    cur,               \* rearrange_folders: image_filename of the iteration
    cls,               \* validation split: the classes still to populate
    images_filenames,  \* validation split: the names still to move
    runs,              \* number of organizer runs started
    hist,              \* history of the runs, for the properties
    batch_size,        \* the global batch_size
    val_n,             \* val_flow.n, the number of validation images
    labels,            \* val_flow.classes: the label of each image, in order
    probs,             \* what model.predict gives for each image, in tenths
    val_index,         \* val_flow: images the flow has gone past
    iter,              \* iterations of the accuracy loop so far
    all_correct,       \* the list all_correct
    scored,            \* the image each entry of all_correct was computed from
    accuracy,          \* np.mean(all_correct) once printed, as <<sum, len>>
    pcE,               \* position in the accuracy cell
    trainable,         \* layer.trainable of each layer of model.layers
    collected,         \* layers whose weights the compiled model trains
    weights,           \* per layer, how often its parameters were updated
    epoch,             \* fit_generator: epochs completed
    step,              \* fit_generator: batches trained on in this epoch
    samples,           \* training images drawn since the last validation
    validations,       \* fit_generator: validation evaluations done
    top_weights,       \* how often the parameters of top_model were updated
    top_epoch,         \* top_model.fit: epochs completed
    pcF                \* position in the fine tuning cells

orgVars == <<home, dirs, files, archive, pc, members, image_filenames, cur,
             cls, images_filenames, runs, hist>>

evalVars == <<batch_size, val_n, labels, probs, val_index, iter, all_correct,
              scored, accuracy, pcE>>

ftVars == <<trainable, collected, weights, epoch, step, samples, validations,
            top_weights, top_epoch, pcF>>

vars == <<orgVars, evalVars, ftVars>>

----------------------------------------------------------------------------
(* Strings and paths *)

\* The tokens in ASCII order of the strings they stand for.
Alphabet ==
    <<".", "/", "0", "1", "2", "3", "4", "5", "6", "7", "8", "9",
      "a", "b", "cat", "data", "dog", "dogs-vs-cats", "home", "jpg",
      "train", "user", "validation", "zip">>

Rank(t) == CHOOSE i \in 1..Len(Alphabet) : Alphabet[i] = t

DigitTok == <<"0", "1", "2", "3", "4", "5", "6", "7", "8", "9">>

\* str(n) for a natural number n
RECURSIVE Digits(_)
Digits(n) ==
    IF n < 10 THEN <<DigitTok[n + 1]>>
    ELSE Digits(n \div 10) \o <<DigitTok[(n % 10) + 1]>>

\* '<class>.<n>.jpg', the names of the images in the archive
ImageName(c, n) == <<c, ".">> \o Digits(n) \o <<".", "jpg">>

\* a < b for Python strings: shorter strings order by length first
RECURSIVE LengthFirstLess(_, _)
LengthFirstLess(a, b) ==
    IF Len(a) # Len(b) THEN Len(a) < Len(b)
    ELSE IF a = <<>> THEN FALSE
    ELSE IF a[1] = b[1] THEN LengthFirstLess(Tail(a), Tail(b))
    ELSE Rank(a[1]) < Rank(b[1])

\* a < b for Python strings (lexicographic order of the characters)
RECURSIVE StrLess(_, _)
StrLess(a, b) ==
    IF a = <<>> THEN b # <<>>
    ELSE IF b = <<>> THEN FALSE
    ELSE IF a[1] = b[1] THEN StrLess(Tail(a), Tail(b))
    ELSE Rank(a[1]) < Rank(b[1])

\* sorted(S) for a set of distinct strings
RECURSIVE Sorted(_)
Sorted(S) ==
    IF S = {} THEN <<>>
    ELSE LET m == CHOOSE x \in S : \A y \in S \ {x} : StrLess(x, y)
         IN  <<m>> \o Sorted(S \ {m})

\* s[-n:] for n > 0
LastSlice(s, n) == SubSeq(s, IF Len(s) > n THEN Len(s) - n + 1 ELSE 1, Len(s))

\* s.endswith('.jpg')
EndsWithJpg(s) == Len(s) >= 2 /\ s[Len(s) - 1] = "." /\ s[Len(s)] = "jpg"

\* positions of a token in a string
Positions(s, t) == {i \in 1..Len(s) : s[i] = t}

Min(S) == CHOOSE x \in S : \A y \in S : x <= y
Max(S) == CHOOSE x \in S : \A y \in S : x >= y

\* s.split('.', 1)[0], defined when s contains a '.'
SplitHead(s) == SubSeq(s, 1, Min(Positions(s, ".")) - 1)

\* os.path.join(a, b)
Join(a, b) ==
    IF b # <<>> /\ b[1] = "/" THEN b
    ELSE IF a = <<>> \/ a[Len(a)] = "/" THEN a \o b
    ELSE a \o <<"/">> \o b

\* os.path.basename(p)
Base(p) ==
    IF Positions(p, "/") = {} THEN p
    ELSE SubSeq(p, Max(Positions(p, "/")) + 1, Len(p))

\* os.path.dirname(p)
Parent(p) ==
    IF Positions(p, "/") = {} THEN <<>>
    ELSE IF Max(Positions(p, "/")) = 1 THEN <<"/">>
    ELSE SubSeq(p, 1, Max(Positions(p, "/")) - 1)

\* p and the directories above it
RECURSIVE Ancestors(_)
Ancestors(p) == IF p = <<"/">> \/ p = <<>> THEN {p} ELSE {p} \cup Ancestors(Parent(p))

----------------------------------------------------------------------------
(* The folders of the notebook *)

data_folder == Join(home, <<"data", "/", "dogs-vs-cats">>)

train_folder == Join(data_folder, <<"train">>)

train_zip == Join(data_folder, <<"train", ".", "zip">>)

validation_folder == Join(data_folder, <<"validation">>)

Classes == <<"dog", "cat">>

----------------------------------------------------------------------------
(* The filesystem calls.  Each returns [ok, dirs, files]; ok = FALSE is    *)
(* the call raising, the filesystem as the call left it.                   *)

FS(ok, ds, fs) == [ok |-> ok, dirs |-> ds, files |-> fs]

\* os.path.exists(p)
Exists(ds, fs, p) == p \in ds \/ p \in fs

\* os.listdir(d), defined when d is a directory: the names directly in d
ListDir(ds, fs, d) == {Base(p) : p \in {q \in (ds \cup fs) \ {d} : Parent(q) = d}}

\* os.mkdir(p)
MkDir(ds, fs, p) ==
    IF Exists(ds, fs, p) \/ Parent(p) \notin ds THEN FS(FALSE, ds, fs)
    ELSE FS(TRUE, ds \cup {p}, fs)

\* shutil.copy(src, dst) followed by nothing: the source stays in place
CopyFile(ds, fs, src, dst) ==
    IF dst \in ds
    THEN IF Exists(ds, fs, Join(dst, Base(src))) THEN FS(FALSE, ds, fs)
         ELSE FS(TRUE, ds, fs \cup {Join(dst, Base(src))})
    ELSE IF Parent(dst) \notin ds THEN FS(FALSE, ds, fs)
    ELSE FS(TRUE, ds, fs \cup {dst})

\* shutil.move(src, dst) of a regular file src
Move(ds, fs, src, dst) ==
    IF dst \in ds
    THEN IF Exists(ds, fs, Join(dst, Base(src))) THEN FS(FALSE, ds, fs)
         ELSE FS(TRUE, ds, (fs \ {src}) \cup {Join(dst, Base(src))})
    ELSE IF Parent(dst) \notin ds THEN FS(FALSE, ds, fs)
    ELSE FS(TRUE, ds, (fs \ {src}) \cup {dst})

----------------------------------------------------------------------------
(* The dataset organizer *)

Homes == { <<"/", "home", "/", "user">>, <<"/", "home", "/", "a", ".", "b">> }

\* the k images of class c in the archive: c.8.jpg, c.9.jpg, c.10.jpg, ...
ArchiveImages(c, k) == [i \in 1..k |-> ImageName(c, 7 + i)]

\* what a run records about itself (reset when a run starts)
NewRun(ds, fs, prevDone, old) ==
    [ dirs0    |-> ds,          \* the filesystem when the run started
      files0   |-> fs,
      mkdirs   |-> 0,           \* directories created by the run
      moves    |-> 0,           \* files moved by the run
      vmoves   |-> 0,           \* files moved by the validation cell of the run
      found    |-> {},          \* names rearrange_folders listed in the run
      prevDone |-> prevDone,    \* the run before this one completed
      fresh    |-> FALSE,       \* the split of this run found no validation/
      before   |-> [c \in {"dog", "cat"} |-> {}],  \* listing seen by the split
      listed   |-> {},          \* classes the split of this run has listed
      movedR   |-> old.movedR,  \* names moved by rearrange_folders, all runs
      movedV   |-> old.movedV,  \* names moved by the split, all runs
      dup      |-> old.dup ]    \* a step moved a name it had moved before

NoMoves == [movedR |-> {}, movedV |-> {}, dup |-> FALSE]

InitOrg ==
    /\ home \in Homes
    /\ \E nc \in 0..MaxImages, nd \in 0..MaxImages :
           archive = ArchiveImages("cat", nc) \o ArchiveImages("dog", nd)
    /\ \E zipPresent \in BOOLEAN, extracted \in BOOLEAN :
           /\ dirs = Ancestors(data_folder)
                        \cup (IF extracted THEN {train_folder} ELSE {})
           /\ files = (IF zipPresent THEN {train_zip} ELSE {})
                        \cup (IF extracted
                              THEN {Join(train_folder, archive[i]) :
                                        i \in 1..Len(archive)}
                              ELSE {})
    /\ pc = "extract"
    /\ members = <<>>
    /\ image_filenames = {}
    /\ cur = <<>>
    /\ cls = <<>>
    /\ images_filenames = <<>>
    /\ runs = 1
    /\ hist = NewRun(dirs, files, FALSE, NoMoves)

\* if not op.exists(train_folder)
NeedsExtract(ds, fs) == ~Exists(ds, fs, train_folder)

\* ZipFile(train_zip) never raising
ZipAlwaysOpens(fs) == TRUE

\* ZipFile(train_zip) opens the archive: it raises when the file is missing
ZipOpens(fs) == train_zip \in fs

\* the cell that extracts train.zip: the test and the opening of the archive
ExtractCheck ==
    /\ UNCHANGED <<evalVars, ftVars>>
    /\ pc = "extract"
    /\ IF ~NeedsExtract(dirs, files)
         THEN pc' = "rearrange" /\ members' = members
         ELSE IF ~ZipOpens(files)
              THEN pc' = "error" /\ members' = members
              ELSE /\ pc' = "extracting"
                   /\ members' = <<<<"train">>>> \o
                        [i \in 1..Len(archive) |-> Join(<<"train">>, archive[i])]
    /\ UNCHANGED <<home, dirs, files, archive, image_filenames, cur, cls,
                   images_filenames, runs, hist>>

\* ZipFile.extractall: one member written under data_folder
ExtractMember ==
    /\ UNCHANGED <<evalVars, ftVars>>
    /\ pc = "extracting"
    /\ LET target == Join(data_folder, Head(members))
           isDir  == Head(members) = <<"train">>
       IN  /\ dirs'  = IF isDir THEN dirs \cup Ancestors(target)
                                ELSE dirs \cup Ancestors(Parent(target))
           /\ files' = IF isDir THEN files ELSE files \cup {target}
    /\ hist' = [hist EXCEPT !.mkdirs = @ + Cardinality(dirs' \ dirs)]
    /\ members' = Tail(members)
    /\ pc' = IF Tail(members) = <<>> THEN "rearrange" ELSE "extracting"
    /\ UNCHANGED <<home, archive, image_filenames, cur, cls, images_filenames,
                   runs>>

\* subfolder, _ = image_filename.split('.', 1)
\* subfolder = op.join(folder, subfolder)
SubfolderOf(folder, image_filename) ==
    Join(folder, SplitHead(image_filename))

\* rearrange_folders(train_folder): the listing and the early return
RearrangeList ==
    /\ UNCHANGED <<evalVars, ftVars>>
    /\ pc = "rearrange"
    /\ IF train_folder \notin dirs
         THEN pc' = "error" /\ image_filenames' = image_filenames
                            /\ hist' = hist
         ELSE LET names == {f \in ListDir(dirs, files, train_folder) :
                               EndsWithJpg(f)}
              IN  /\ image_filenames' = {Join(train_folder, fn) : fn \in names}
                  /\ pc' = IF names = {} THEN "split" ELSE "rearr_mkdir"
                  /\ hist' = [hist EXCEPT !.found = names]
    /\ UNCHANGED <<home, dirs, files, archive, members, cur, cls,
                   images_filenames, runs>>

\* one iteration of the loop, up to the os.mkdir of the subfolder; os.listdir
\* returns the names in arbitrary order
RearrangeMkdir ==
    /\ UNCHANGED <<evalVars, ftVars>>
    /\ pc = "rearr_mkdir"
    /\ \E f \in image_filenames :
          LET subfolder == SubfolderOf(train_folder, f)
              r == MkDir(dirs, files, subfolder)
          IN  /\ cur' = f
              /\ IF Exists(dirs, files, subfolder)
                   THEN pc' = "rearr_move" /\ dirs' = dirs /\ hist' = hist
                   ELSE /\ pc' = IF r.ok THEN "rearr_move" ELSE "error"
                        /\ dirs' = r.dirs
                        /\ hist' = [hist EXCEPT !.mkdirs =
                                        IF r.ok THEN @ + 1 ELSE @]
    /\ UNCHANGED <<home, files, archive, members, image_filenames, cls,
                   images_filenames, runs>>

\* the shutil.move that ends the iteration
RearrangeMove ==
    /\ UNCHANGED <<evalVars, ftVars>>
    /\ pc = "rearr_move"
    /\ LET r == Move(dirs, files, cur, SubfolderOf(train_folder, cur))
       IN  /\ files' = r.files
           /\ IF r.ok
                THEN /\ image_filenames' = image_filenames \ {cur}
                     /\ pc' = IF image_filenames' = {} THEN "split"
                                                       ELSE "rearr_mkdir"
                     /\ hist' = [hist EXCEPT
                                    !.moves = @ + 1,
                                    !.movedR = @ \cup {Base(cur)},
                                    !.dup = @ \/ Base(cur) \in hist.movedR]
                ELSE /\ image_filenames' = image_filenames
                     /\ pc' = "error"
                     /\ hist' = hist
    /\ UNCHANGED <<home, dirs, archive, members, cur, cls, images_filenames,
                   runs>>

\* the validation cell without its test
NeedsSplitAlways(ds, fs) == TRUE

\* if not op.exists(validation_folder)
NeedsSplit(ds, fs) == ~Exists(ds, fs, validation_folder)

\* the validation cell: the test and os.mkdir(validation_folder)
SplitCheck ==
    /\ UNCHANGED <<evalVars, ftVars>>
    /\ pc = "split"
    /\ IF ~NeedsSplit(dirs, files)
         THEN pc' = "done" /\ dirs' = dirs /\ cls' = cls /\ hist' = hist
         ELSE LET r == MkDir(dirs, files, validation_folder)
              IN  /\ dirs' = r.dirs
                  /\ pc' = IF r.ok THEN "split_class" ELSE "error"
                  /\ cls' = IF r.ok THEN Classes ELSE cls
                  /\ hist' = [hist EXCEPT !.fresh = TRUE,
                                 !.mkdirs = IF r.ok THEN @ + 1 ELSE @]
    /\ UNCHANGED <<home, files, archive, members, image_filenames, cur,
                   images_filenames, runs>>

\* sorted(os.listdir(train_subfolder))[-n_validation:]
HeldOut(names) == LastSlice(Sorted(names), n_validation)

\* the class loop: os.mkdir(validation_subfolder) and the sorted listing
SplitClass ==
    /\ UNCHANGED <<evalVars, ftVars>>
    /\ pc = "split_class"
    /\ LET class_name == Head(cls)
           train_subfolder == Join(train_folder, <<class_name>>)
           validation_subfolder == Join(validation_folder, <<class_name>>)
           r == MkDir(dirs, files, validation_subfolder)
       IN  /\ dirs' = r.dirs
           /\ IF r.ok /\ train_subfolder \in dirs
                THEN LET names == ListDir(dirs, files, train_subfolder)
                     IN  /\ images_filenames' = HeldOut(names)
                         /\ hist' = [hist EXCEPT
                                        !.mkdirs = @ + 1,
                                        !.before[class_name] = names,
                                        !.listed = @ \cup {class_name}]
                         /\ IF images_filenames' # <<>>
                              THEN pc' = "split_move" /\ cls' = cls
                              ELSE /\ cls' = Tail(cls)
                                   /\ pc' = IF Tail(cls) = <<>> THEN "done"
                                                               ELSE "split_class"
                ELSE /\ pc' = "error"
                     /\ cls' = cls
                     /\ images_filenames' = images_filenames
                     /\ hist' = [hist EXCEPT !.mkdirs =
                                     IF r.ok THEN @ + 1 ELSE @]
    /\ UNCHANGED <<home, files, archive, members, image_filenames, cur, runs>>

\* one shutil.move of the inner loop of the validation cell
SplitMove ==
    /\ UNCHANGED <<evalVars, ftVars>>
    /\ pc = "split_move"
    /\ LET class_name == Head(cls)
           name == Head(images_filenames)
           r == Move(dirs, files,
                     Join(Join(train_folder, <<class_name>>), name),
                     Join(validation_folder, <<class_name>>))
       IN  /\ files' = r.files
           /\ IF r.ok
                THEN /\ images_filenames' = Tail(images_filenames)
                     /\ hist' = [hist EXCEPT
                                    !.moves = @ + 1,
                                    !.vmoves = @ + 1,
                                    !.movedV = @ \cup {name},
                                    !.dup = @ \/ name \in hist.movedV]
                     /\ IF Tail(images_filenames) # <<>>
                          THEN pc' = "split_move" /\ cls' = cls
                          ELSE /\ cls' = Tail(cls)
                               /\ pc' = IF Tail(cls) = <<>> THEN "done"
                                                           ELSE "split_class"
                ELSE /\ pc' = "error"
                     /\ UNCHANGED <<images_filenames, cls, hist>>
    /\ UNCHANGED <<home, dirs, archive, members, image_filenames, cur, runs>>

\* the notebook is run again from its first cell
Rerun ==
    /\ UNCHANGED <<evalVars, ftVars>>
    /\ pc \in {"done", "error", "interrupted"}
    /\ runs < MaxRuns
    /\ runs' = runs + 1
    /\ pc' = "extract"
    /\ members' = <<>>
    /\ image_filenames' = {}
    /\ cur' = <<>>
    /\ cls' = <<>>
    /\ images_filenames' = <<>>
    /\ hist' = NewRun(dirs, files, pc = "done", hist)
    /\ UNCHANGED <<home, dirs, files, archive>>

\* the kernel is interrupted between two steps of a run
Interrupt ==
    /\ UNCHANGED <<evalVars, ftVars>>
    /\ pc \notin {"done", "error", "interrupted"}
    /\ pc' = "interrupted"
    /\ UNCHANGED <<home, dirs, files, archive, members, image_filenames, cur,
                   cls, images_filenames, runs, hist>>

\* the organizer when another part of the notebook is looked at: not started
IdleOrg ==
    /\ home = <<"/", "home", "/", "user">>
    /\ archive = <<>>
    /\ dirs = Ancestors(data_folder)
    /\ files = {}
    /\ pc = "idle"
    /\ members = <<>>
    /\ image_filenames = {}
    /\ cur = <<>>
    /\ cls = <<>>
    /\ images_filenames = <<>>
    /\ runs = 0
    /\ hist = NewRun(dirs, files, FALSE, NoMoves)

OrgStep ==
    \/ ExtractCheck
    \/ ExtractMember
    \/ RearrangeList
    \/ RearrangeMkdir
    \/ RearrangeMove
    \/ SplitCheck
    \/ SplitClass
    \/ SplitMove
    \/ Rerun

----------------------------------------------------------------------------
(* The validation accuracy cell *)

\* batch_size = 50
BatchSize == 50

\* val_flow.classes of flow_from_directory(class_mode='binary'), not shuffled:
\* the images of 'cat' (label 0) come first, then those of 'dog' (label 1)
FlowLabels(n, ncat) == [k \in 1..n |-> IF k <= ncat THEN 0 ELSE 1]

\* predicted probabilities, in tenths: 0.4, 0.5 and 0.6
Tenths == {4, 5, 6}

\* the accuracy cell not started
IdleEval ==
    /\ batch_size = BatchSize
    /\ val_n = 0
    /\ labels = <<>>
    /\ probs = <<>>
    /\ val_index = 0
    /\ iter = 0
    /\ all_correct = <<>>
    /\ scored = <<>>
    /\ accuracy = <<0, 0>>
    /\ pcE = "idle"

\* val_flow = valgen.flow_from_directory(...); all_correct = []
InitEval ==
    /\ batch_size \in 1..MaxBatch
    /\ val_n \in 0..MaxVal
    /\ \E ncat \in 0..val_n : labels = FlowLabels(val_n, ncat)
    /\ probs \in [1..val_n -> Tenths]
    /\ val_index = 0
    /\ iter = 0
    /\ all_correct = <<>>
    /\ scored = <<>>
    /\ accuracy = <<0, 0>>
    /\ pcE = "loop"

\* (predictions > 0.5) == y for one image, p in tenths
Correct(p, y) == (p > 5) = (y = 1)

\* range(val_flow.n // batch_size): the number of iterations of the loop
NumBatches(n, bs) == n \div bs

\* next(val_flow): the indices of the next batch; the last batch of a pass
\* holds what is left, then the flow starts over
BatchIndices(idx, n, bs) == (idx + 1)..(IF idx + bs < n THEN idx + bs ELSE n)

\* one iteration of the loop over zip(range(...), val_flow)
EvalBatch ==
    /\ pcE = "loop"
    /\ iter < NumBatches(val_n, batch_size)
    /\ iter' = iter + 1
    /\ LET batch == BatchIndices(val_index, val_n, batch_size)
           first == val_index + 1
           size  == Cardinality(batch)
       IN  /\ all_correct' = all_correct \o
                  [k \in 1..size |->
                      Correct(probs[first + k - 1], labels[first + k - 1])]
           /\ scored' = scored \o [k \in 1..size |-> first + k - 1]
           /\ val_index' = IF val_index + batch_size < val_n
                            THEN val_index + batch_size ELSE 0
    /\ UNCHANGED <<batch_size, val_n, labels, probs, accuracy, pcE>>
    /\ UNCHANGED <<orgVars, ftVars>>

\* sum of the True entries of a list of booleans
RECURSIVE CountTrue(_)
CountTrue(s) ==
    IF s = <<>> THEN 0
    ELSE (IF Head(s) THEN 1 ELSE 0) + CountTrue(Tail(s))

\* np.mean(all_correct) as <<sum, len>>; 0 / 0 is nan
Mean(s) == <<CountTrue(s), Len(s)>>

\* the loop is over: print("Validation accuracy: %0.4f" % np.mean(all_correct))
EvalReport ==
    /\ pcE = "loop"
    /\ iter >= NumBatches(val_n, batch_size)
    /\ accuracy' = Mean(all_correct)
    /\ pcE' = "reported"
    /\ UNCHANGED <<batch_size, val_n, labels, probs, val_index, iter,
                   all_correct, scored>>
    /\ UNCHANGED <<orgVars, ftVars>>

----------------------------------------------------------------------------
(* The models: top_model.fit, the composed model, the trainability toggle, *)
(* compile and fit_generator                                               *)

\* base_model: ResNet50 (177 layers) up to layers[-2], its flatten layer
BackboneLayers == 176

\* model = Model(base_model.input, top_model(base_model.output)): the
\* layers of base_model, then top_model as the last layer
Layers == 0..BackboneLayers

HeadLayer == BackboneLayers

\* fit_generator(train_flow, 5000, ...): steps_per_epoch
steps_per_epoch == 5000

\* fit_generator(..., epochs=30, ...)
epochs == 30

\* top_model.fit(..., epochs=15)
top_epochs == 15

\* base_model holds the imagenet weights and top_model has just been
\* created: every layer is trainable (the default), nothing has been trained
\* and model has not been compiled.  weights[HeadLayer] is what the last
\* layer of model holds once model exists.
InitModel ==
    /\ trainable = [i \in Layers |-> TRUE]
    /\ collected = {}
    /\ weights = [i \in Layers |-> 0]
    /\ epoch = 0
    /\ step = 0
    /\ samples = 0
    /\ validations = 0
    /\ top_weights = 0
    /\ top_epoch = 0

IdleFT == InitModel /\ pcF = "idle"

InitFT == InitModel /\ pcF = "head_fit"

\* top_model.fit(features_train, labels_train, ...): one epoch of gradient
\* steps on the cached features; top_model is the only model involved
HeadFit ==
    /\ pcF = "head_fit"
    /\ top_weights' = top_weights + 1
    /\ top_epoch' = top_epoch + 1
    /\ pcF' = IF top_epoch + 1 = top_epochs THEN "compose" ELSE "head_fit"
    /\ UNCHANGED <<trainable, collected, weights, epoch, step, samples,
                   validations>>
    /\ UNCHANGED <<orgVars, evalVars>>

\* a new Dense layer built like top_model: its parameters are initialised anew
FreshHead(w) == 0

\* top_model(base_model.output): the layer of model is top_model itself, so
\* it holds the parameters top_model holds
SharedHead(w) == w

\* model = Model(base_model.input, top_model(base_model.output))
Compose ==
    /\ pcF = "compose"
    /\ weights' = [weights EXCEPT ![HeadLayer] = SharedHead(top_weights)]
    /\ pcF' = "evaluate"
    /\ UNCHANGED <<trainable, collected, epoch, step, samples, validations,
                   top_weights, top_epoch>>
    /\ UNCHANGED <<orgVars, evalVars>>

\* the cells that call model.predict on the validation images: the 15
\* displayed predictions and the accuracy loop; no parameter is written
Evaluate ==
    /\ pcF = "evaluate"
    /\ pcF' = "toggle"
    /\ UNCHANGED <<trainable, collected, weights, epoch, step, samples,
                   validations, top_weights, top_epoch>>
    /\ UNCHANGED <<orgVars, evalVars>>

\* layer.trainable = True, the flag as the layers are created
KeepsTrainable(i) == TRUE

\* layer.trainable = i >= 151
Trainable(i) == i >= 151

\* for i, layer in enumerate(model.layers): layer.trainable = i >= 151
SetTrainable ==
    /\ pcF = "toggle"
    /\ trainable' = [i \in Layers |-> Trainable(i)]
    /\ pcF' = "compile"
    /\ UNCHANGED <<collected, weights, epoch, step, samples, validations,
                   top_weights, top_epoch>>
    /\ UNCHANGED <<orgVars, evalVars>>

\* model.compile(optimizer=opt, ...): the weights of the layers that are
\* trainable now are the ones the training function will update
Compile ==
    /\ pcF = "compile"
    /\ collected' = {i \in Layers : trainable[i]}
    /\ pcF' = "fit"
    /\ UNCHANGED <<trainable, weights, epoch, step, samples, validations,
                   top_weights, top_epoch>>
    /\ UNCHANGED <<orgVars, evalVars>>

\* fit_generator: one batch of batch_size images drawn from train_flow and
\* one gradient step on it; the last layer of model is top_model, whose
\* parameters are the ones updated
TrainStep ==
    /\ pcF = "fit"
    /\ step < steps_per_epoch
    /\ weights' = [i \in Layers |->
                      IF i \in collected THEN weights[i] + 1 ELSE weights[i]]
    /\ step' = step + 1
    /\ samples' = samples + batch_size
    /\ top_weights' = weights'[HeadLayer]
    /\ pcF' = IF step + 1 = steps_per_epoch THEN "validate" ELSE "fit"
    /\ UNCHANGED <<trainable, collected, epoch, validations, top_epoch>>
    /\ UNCHANGED <<orgVars, evalVars>>

\* fit_generator: the epoch is over, the validation metrics are computed on
\* val_flow and the next epoch starts, up to epochs of them
Validate ==
    /\ pcF = "validate"
    /\ validations' = validations + 1
    /\ epoch' = epoch + 1
    /\ step' = 0
    /\ samples' = 0
    /\ pcF' = IF epoch + 1 = epochs THEN "fitted" ELSE "fit"
    /\ UNCHANGED <<trainable, collected, weights, top_weights, top_epoch>>
    /\ UNCHANGED <<orgVars, evalVars>>

NextFT ==
    \/ HeadFit
    \/ Compose
    \/ Evaluate
    \/ SetTrainable
    \/ Compile
    \/ TrainStep
    \/ Validate

----------------------------------------------------------------------------
(* The specifications *)

\* the dataset organizer, run after run
Init == InitOrg /\ IdleEval /\ IdleFT

Next == OrgStep

Spec == Init /\ [][Next]_vars

NextEval == EvalBatch \/ EvalReport


\* the data folder as downloaded: train.zip and nothing extracted
InitInt == Init /\ train_zip \in files /\ train_folder \notin dirs

NextInt == OrgStep \/ Interrupt

SpecInt == InitInt /\ [][NextInt]_vars

\* the validation accuracy cell, for every validation flow and batch size
InitEvalCell == IdleOrg /\ InitEval /\ IdleFT

SpecEval == InitEvalCell /\ [][NextEval]_vars

\* the cells from top_model.fit to the end of the fine tuning
InitFineTune == IdleOrg /\ IdleEval /\ InitFT

SpecFT == InitFineTune /\ [][NextFT]_vars

----------------------------------------------------------------------------
(* Properties of the dataset organizer *)

\* the names directly in train/<c> and in validation/<c> ({} when absent)
TrainNames(c) == ListDir(dirs, files, Join(train_folder, <<c>>))

ValNames(c) == ListDir(dirs, files, Join(validation_folder, <<c>>))

\* a sorts before b as strings, stated without recursion: they agree up to a
\* position where a has ended or holds the smaller character
LexBefore(a, b) ==
    \E k \in 1..(Len(a) + 1) :
        /\ \A j \in 1..(k - 1) : j <= Len(b) /\ a[j] = b[j]
        /\ \/ k = Len(a) + 1 /\ Len(b) >= k
           \/ k <= Len(a) /\ k <= Len(b) /\ Rank(a[k]) < Rank(b[k])

\* the names of S with fewer than n names of S after them
LastNames(S, n) == {x \in S : Cardinality({y \in S : LexBefore(x, y)}) < n}

SmallerOf(a, b) == IF a < b THEN a ELSE b

\* the organizer run found no validation/ and its validation cell completed
SplitRan == pc = "done" /\ hist.fresh

\* C1: a run started from the state a completed run has produced moves no
\* file, creates no directory, raises no error and leaves the filesystem as
\* it found it.
C1_Idempotent ==
    hist.prevDone =>
        /\ pc # "error"
        /\ hist.moves = 0
        /\ hist.mkdirs = 0
        /\ dirs = hist.dirs0
        /\ files = hist.files0

\* a second run has completed on a directory the first run organized
C1_Witness ==
    /\ hist.prevDone
    /\ pc = "done"
    /\ ValNames("cat") # {}
    /\ ValNames("dog") # {}

\* C2 as stated: after the validation cell has run, validation/<class> holds
\* exactly n_validation images and none of them is still in train/<class>,
\* whatever the number of images of the class.
C2_AsStated ==
    SplitRan =>
        \A c \in {"dog", "cat"} :
            /\ Cardinality(ValNames(c)) = n_validation
            /\ ValNames(c) \cap TrainNames(c) = {}

\* C2 amended: after the validation cell has populated validation/ (absent
\* before, no error), validation/<class> holds n_validation images, or all
\* the images train/<class> held when it held fewer, and none of them is
\* still in train/<class>.
C2_Partition ==
    SplitRan =>
        \A c \in {"dog", "cat"} :
            /\ Cardinality(ValNames(c))
                 = SmallerOf(n_validation, Cardinality(hist.before[c]))
            /\ ValNames(c) \cap TrainNames(c) = {}
            /\ ValNames(c) \cup TrainNames(c) = hist.before[c]

\* the split has run on a class with more images than n_validation and on a
\* class with fewer
C2_Witness ==
    /\ SplitRan
    /\ Cardinality(hist.before["cat"]) > n_validation
    /\ Cardinality(hist.before["dog"]) < n_validation
    /\ ValNames("dog") # {}

\* C5: when rearrange_folders(folder) has returned, every file it found in
\* folder is at folder/<class>/<name>, <class> being the part of the file
\* name before its first '.', and folder/<class> is a directory.
C5_AsStated ==
    pc = "split" =>
        \A name \in hist.found :
            LET subfolder == Join(train_folder, SplitHead(name))
            IN  /\ subfolder \in dirs
                /\ Join(subfolder, name) \in files

C7_AsStated ==
    train_zip \notin hist.files0 =>
        /\ pc \in {"extract", "error"}
        /\ dirs = hist.dirs0
        /\ files = hist.files0

\* C7 amended: whenever a run finds train.zip missing and no train/
\* directory, it aborts with an error in the extraction cell, before the
\* filesystem is changed.
C7_MissingArchiveFatal ==
    (train_zip \notin hist.files0 /\ train_folder \notin hist.dirs0) =>
        /\ pc \in {"extract", "error"}
        /\ dirs = hist.dirs0
        /\ files = hist.files0

\* a run has aborted on the missing archive
C7_Witness ==
    /\ train_zip \notin hist.files0
    /\ train_folder \notin hist.dirs0
    /\ pc = "error"
    /\ archive # <<>>

\* the archive holds at least n_validation images of each class and the path
\* of the data folder holds no '.'
FullDataset ==
    /\ Positions(home, ".") = {}
    /\ \A c \in {"dog", "cat"} :
          Cardinality({i \in 1..Len(archive) : archive[i][1] = c}) >= n_validation

\* C10: whatever runs were interrupted before, once a run completes without
\* interruption and without error, every image is in a per-class directory,
\* validation/<class> holds exactly n_validation images, none of them still
\* in train/<class>, and no step has moved an image twice.
C10_AsStated ==
    (pc = "done" /\ FullDataset) =>
        /\ \A f \in files :
              EndsWithJpg(f) =>
                  \E c \in {"dog", "cat"} :
                      Parent(f) \in {Join(train_folder, <<c>>),
                                     Join(validation_folder, <<c>>)}
        /\ \A c \in {"dog", "cat"} :
              /\ Cardinality(ValNames(c)) = n_validation
              /\ ValNames(c) \cap TrainNames(c) = {}
        /\ ~hist.dup

----------------------------------------------------------------------------
(* Properties of the validation accuracy cell *)

\* the validation images whose thresholded prediction matches their label
CorrectImages == {k \in 1..val_n : (probs[k] > 5) = (labels[k] = 1)}

\* C3: the accuracy printed by the cell is (number of validation images
\* whose thresholded prediction matches the label) / val_flow.n, for every
\* number of images and batch size (stated here for val_flow.n of at least
\* one batch).
C3_AsStated ==
    (pcE = "reported" /\ val_n >= batch_size) =>
        /\ accuracy[2] > 0
        /\ accuracy[1] * val_n = Cardinality(CorrectImages) * accuracy[2]

\* C8: the loop scores every validation image exactly once, in the order of
\* val_flow.filenames, and an image counts as correct iff (probability > 0.5)
\* equals its label (stated here for val_flow.n of at least one batch).
C8_AsStated ==
    (pcE = "reported" /\ val_n >= batch_size) =>
        /\ scored = [k \in 1..val_n |-> k]
        /\ \A k \in 1..Len(all_correct) :
              all_correct[k] = (scored[k] \in CorrectImages)

----------------------------------------------------------------------------
(* Properties of the fine tuning cells *)

\* C4: the flags (layer i trainable iff i >= 151) are set before the model is
\* compiled for fine tuning, and every training step leaves the parameters
\* of every layer below 151 as they were while it changes parameters of a
\* layer at or above 151, those of the head (the last layer) among them.
C4_FrozenBelowThreshold ==
    /\ [](pcF \in {"fit", "validate", "fitted"} =>
            /\ \A i \in Layers : trainable[i] <=> i >= 151
            /\ collected = {i \in Layers : i >= 151}
            /\ HeadLayer \in collected)
    /\ [][step' = step + 1 =>
            /\ \A i \in Layers : i < 151 => weights'[i] = weights[i]
            /\ \E i \in Layers : i >= 151 /\ weights'[i] # weights[i]
            /\ weights'[HeadLayer] # weights[HeadLayer]]_vars

\* training steps have been taken: the head and layer 151 have changed,
\* layers 0 and 150 have not
C4_Witness ==
    /\ pcF = "fit"
    /\ step > 0
    /\ weights[HeadLayer] > 0
    /\ weights[151] > 0
    /\ weights[150] = 0
    /\ weights[0] = 0

\* C9: between two validation evaluations of the fine tuning run the
\* training flow delivers exactly 5000 training images, and the run stops
\* after exactly 30 passes, each followed by a validation evaluation.
C9_AsStated ==
    /\ pcF = "validate" => samples = 5000
    /\ pcF = "fitted" => validations = 30 /\ epoch = 30

\* the layers of base_model
Backbone == Layers \ {HeadLayer}

\* C11: in notebook order (top_model.fit, composition, validation
\* evaluation, trainability toggle, fine tuning) no step before the fine
\* tuning fit changes a parameter of the backbone; top_model.fit changes the
\* parameters of the head and nothing else; and the last layer of the composed
\* model holds the trained parameters of top_model, not a copy: the two
\* agree from the composition on, fine tuning included.
C11_BackboneReadOnly ==
    /\ [](pcF \in {"head_fit", "compose", "evaluate", "toggle", "compile"} =>
            \A i \in Backbone : weights[i] = 0)
    /\ [][pcF # "fit" => \A i \in Backbone : weights'[i] = weights[i]]_vars
    /\ [][top_epoch' = top_epoch + 1 =>
            /\ top_weights' # top_weights
            /\ \A i \in Backbone : weights'[i] = weights[i]]_vars
    /\ [](pcF \in {"evaluate", "toggle", "compile", "fit", "validate",
                   "fitted"} =>
            /\ weights[HeadLayer] = top_weights
            /\ top_weights >= top_epochs)

\* the fine tuning has trained the head beyond what top_model.fit gave it and
\* has changed the backbone, which no earlier step had
C11_Witness ==
    /\ pcF = "validate"
    /\ top_epoch = top_epochs
    /\ top_weights > top_epochs
    /\ weights[HeadLayer] = top_weights
    /\ weights[BackboneLayers - 1] > 0

\* the extraction cell is behind: train/ holds what the archive held
Extracted == train_folder \in dirs /\ pc \notin {"extract", "extracting"}

\* where the claim lets the image called name be: train/, train/<class> or
\* validation/<class>, <class> being the class in its name
AllowedPlaces(name) ==
    { Join(train_folder, name),
      Join(Join(train_folder, SplitHead(name)), name),
      Join(Join(validation_folder, SplitHead(name)), name) }

\* the images on disk: every file but the archive
ImagesOnDisk == files \ {train_zip}

\* C12 as stated: in every state that runs of rearrange_folders and of the
\* validation cell reach, the image names found under train/ and validation/
\* are the names extracted: every extracted image is at exactly one place,
\* which is train/, train/<class> or validation/<class> for its class, and no
\* other image file exists (none deleted, duplicated or renamed).
C12_AsStated ==
    Extracted =>
        /\ \A i \in 1..Len(archive) :
               Cardinality({f \in ImagesOnDisk : Base(f) = archive[i]}) = 1
        /\ \A f \in ImagesOnDisk :
               /\ \E i \in 1..Len(archive) : Base(f) = archive[i]
               /\ f \in AllowedPlaces(Base(f))

=============================================================================
